---- MODULE Spec2Model ----
(***************************************************************************)
(* Model of satcom.ino: the sampling loop of the ADS7830 converter, the    *)
(* serial command interpreter, the display rotation and the tone output.   *)
(*                                                                         *)
(* float values are modelled as exact rationals (records n/d in lowest     *)
(* terms) extended with the IEEE results of a division by zero (inf, nan): *)
(* the rounding of a 32-bit float is abstracted away.  int values are      *)
(* modelled unbounded; the inputs of the model stay far inside 16 bits.    *)
(***************************************************************************)
EXTENDS Integers, Sequences, FiniteSets, TLC

(***************************************************************************)
(* Arduino String and stdlib parsing, character by character.              *)
(***************************************************************************)
Digits == {"0", "1", "2", "3", "4", "5", "6", "7", "8", "9"}

DigitVal(c) ==
    CASE c = "0" -> 0 [] c = "1" -> 1 [] c = "2" -> 2 [] c = "3" -> 3
      [] c = "4" -> 4 [] c = "5" -> 5 [] c = "6" -> 6 [] c = "7" -> 7
      [] c = "8" -> 8 [] c = "9" -> 9

\* s.charAt(i), i counted from 0 as in the sketch
charAt(s, i) == SubSeq(s, i + 1, i + 1)

\* String::startsWith(prefix)
startsWith(s, p) == Len(s) >= Len(p) /\ SubSeq(s, 1, Len(p)) = p

RECURSIVE indexFrom(_, _, _)
indexFrom(s, c, i) ==
    IF i >= Len(s) THEN -1
    ELSE IF charAt(s, i) = c THEN i
    ELSE indexFrom(s, c, i + 1)

\* String::indexOf(c): the first position of c, -1 when absent
indexOf(s, c) == indexFrom(s, c, 0)

\* an int argument passed to an unsigned int parameter
toUnsigned(i) == IF i < 0 THEN i + 2^16 ELSE i

\* String::substring(left, right): unsigned arguments, swapped when left >
\* right, empty when left is past the end, right clipped to the length
substring(s, left, right) ==
    LET l0 == toUnsigned(left)
        r0 == toUnsigned(right)
        l  == IF l0 > r0 THEN r0 ELSE l0
        r1 == IF l0 > r0 THEN l0 ELSE r0
        r  == IF r1 > Len(s) THEN Len(s) ELSE r1
    IN  IF l >= Len(s) THEN "" ELSE SubSeq(s, l + 1, r)

\* String::substring(beginIndex)
substringFrom(s, left) == substring(s, left, Len(s))

RECURSIVE skipSpaces(_, _)
skipSpaces(s, i) ==
    IF i < Len(s) /\ charAt(s, i) = " " THEN skipSpaces(s, i + 1) ELSE i

\* the value of the run of digits of s starting at position i, with acc the
\* value read so far, and the position after the run
RECURSIVE digitRun(_, _, _, _)
digitRun(s, i, acc, cnt) ==
    IF i < Len(s) /\ charAt(s, i) \in Digits
    THEN digitRun(s, i + 1, 10 * acc + DigitVal(charAt(s, i)), cnt + 1)
    ELSE [val |-> acc, end |-> i, cnt |-> cnt]

\* String::toInt(), that is atol: leading blanks, an optional sign, digits;
\* 0 when no number starts the text
toInt(s) ==
    LET i0  == skipSpaces(s, 0)
        neg == i0 < Len(s) /\ charAt(s, i0) = "-"
        sgn == i0 < Len(s) /\ charAt(s, i0) \in {"-", "+"}
        i1  == IF sgn THEN i0 + 1 ELSE i0
        run == digitRun(s, i1, 0, 0)
    IN  IF neg THEN 0 - run.val ELSE run.val

(***************************************************************************)
(* float arithmetic: exact rationals with inf and nan.                     *)
(***************************************************************************)
Abs(x) == IF x < 0 THEN 0 - x ELSE x

\* Euclid's algorithm, as a function so that its arguments are values
GcdOf[a \in Nat, b \in Nat] == IF b = 0 THEN a ELSE GcdOf[b, a % b]

Gcd(a, b) == GcdOf[a, b]

\* the rational n/d (d # 0) in lowest terms with a positive denominator; a
\* function, so that its arguments are values
RatOf[n \in Int, d \in Int] ==
    LET g == Gcd(Abs(n), Abs(d))
        s == IF d < 0 THEN -1 ELSE 1
    IN  [k |-> "num", n |-> (s * n) \div g, d |-> (s * d) \div g]

Rat(n, d) == RatOf[n, d]

FInf(sign) == [k |-> "inf", n |-> sign, d |-> 0]
FNaN == [k |-> "nan", n |-> 0, d |-> 0]
FromInt(i) == Rat(i, 1)

Sign(x) == IF x.n > 0 THEN 1 ELSE IF x.n < 0 THEN -1 ELSE 0

\* the values a float takes in the model
Float == [k : {"num", "inf", "nan"}, n : Int, d : Int]

\* x * y
FMulOf[x \in Float, y \in Float] ==
    IF x.k = "nan" \/ y.k = "nan" THEN FNaN
    ELSE IF x.k = "inf" \/ y.k = "inf"
         THEN IF Sign(x) * Sign(y) = 0 THEN FNaN ELSE FInf(Sign(x) * Sign(y))
    ELSE Rat(x.n * y.n, x.d * y.d)

FMul(x, y) == FMulOf[x, y]

\* x / y: a finite value divided by zero is an infinity, 0/0 is nan
FDivOf[x \in Float, y \in Float] ==
    IF x.k = "nan" \/ y.k = "nan" THEN FNaN
    ELSE IF x.k = "inf"
         THEN IF y.k = "inf" THEN FNaN
              ELSE FInf(IF Sign(y) < 0 THEN 0 - Sign(x) ELSE Sign(x))
    ELSE IF y.k = "inf" THEN Rat(0, 1)
    ELSE IF y.n = 0
         THEN IF x.n = 0 THEN FNaN ELSE FInf(Sign(x))
    ELSE Rat(x.n * y.d, x.d * y.n)

FDiv(x, y) == FDivOf[x, y]

\* x > 0.0 (false for nan)
FPositive(x) == x.k # "nan" /\ x.n > 0

\* String::toFloat(), that is atof: leading blanks, an optional sign, digits,
\* an optional fraction; 0.0 when no number starts the text
RECURSIVE Pow10(_)
Pow10(k) == IF k = 0 THEN 1 ELSE 10 * Pow10(k - 1)

parseDecimal(s, i0) ==
    LET neg  == i0 < Len(s) /\ charAt(s, i0) = "-"
        int  == digitRun(s, IF neg THEN i0 + 1 ELSE i0, 0, 0)
        dot  == int.end < Len(s) /\ charAt(s, int.end) = "."
        frac == IF dot THEN digitRun(s, int.end + 1, 0, 0)
                ELSE [val |-> 0, end |-> int.end, cnt |-> 0]
        mag  == Rat(int.val * Pow10(frac.cnt) + frac.val, Pow10(frac.cnt))
    IN  IF neg THEN Rat(0 - mag.n, mag.d) ELSE mag

toFloat(s) ==
    LET i0 == skipSpaces(s, 0)
        i1 == IF i0 < Len(s) /\ charAt(s, i0) = "+" THEN i0 + 1 ELSE i0
    IN  parseDecimal(s, i1)

\* Stream::parseFloat(): skips every character that cannot start a number,
\* then reads sign, digits and fraction; 0 when the wait for a digit times out
RECURSIVE skipToNumber(_, _)
skipToNumber(s, i) ==
    IF i < Len(s) /\ charAt(s, i) \notin (Digits \cup {"-", "."})
    THEN skipToNumber(s, i + 1) ELSE i

parseFloat(s) == parseDecimal(s, skipToNumber(s, 0))

\* sum / 10.0 and the other int-to-float conversions, then float to int:
\* the conversion of a finite float to int drops the fraction
truncToInt(x) == IF x.n < 0 THEN 0 - ((0 - x.n) \div x.d) ELSE x.n \div x.d

\* C integer division, rounding toward zero
cdiv(a, b) ==
    LET q == Abs(a) \div Abs(b)
    IN  IF (a < 0) # (b < 0) THEN 0 - q ELSE q

\* Arduino map(): integer linear interpolation in long arithmetic
map(v, in_min, in_max, out_min, out_max) ==
    cdiv((v - in_min) * (out_max - out_min), in_max - in_min) + out_min

(***************************************************************************)
(* Program constants.                                                      *)
(***************************************************************************)
numDisplays == 6
historyLen == 10
adcFullScale == 255
cycleInterval == 2000
loopDelay == 200
bannerDelay == 3000
readFailed == -1
vref == Rat(33, 10)

(***************************************************************************)
(* Bounds and inputs of the model.                                         *)
(***************************************************************************)
\* the clock is followed up to bannerDelay + MaxRun milliseconds
MaxRun == 3001
MaxMillis == bannerDelay + MaxRun

\* millis() is an unsigned long and wraps at 2^32; the clock of the model
\* wraps at a smaller power of two, above MaxMillis, so that a run without
\* end stays finite
clockWrap == 2^13

\* the lines the serial monitor sends
Lines ==
    { "setRange 100,200", "setRange 0,200", "setRange 200,100",
      "setRange 100,100", "setGain 2.0", "setGain -1", "setGain 0",
      "toggleLCD", "toggleLowpass", "toggleTone", "calibrate", "autoCycle",
      "display 0", "display 3", "display 5", "display 6", "display -1",
      "displays", "status" }

\* what the operator types at the calibration prompt
CalInputs == { "3300", "1650", "0", "-3300" }

\* what the converter returns on a successful read
Samples == { 0, 128, 255 }

\* the time one pass through loop() takes beyond its delay(200)
WorkTimes == { 800, 1800, 1801 }

\* how long the calibration prompt waits for its input
WaitTimes == { 0, 2000 }

(***************************************************************************)
(* processSerialInput: which branch of the if-chain a line takes, and the  *)
(* arguments that branch parses from it.                                   *)
(***************************************************************************)
branchOf(input) ==
    IF startsWith(input, "setRange") THEN "setRange"
    ELSE IF startsWith(input, "setGain") THEN "setGain"
    ELSE IF input = "toggleLCD" THEN "toggleLCD"
    ELSE IF input = "toggleLowpass" THEN "toggleLowpass"
    ELSE IF input = "toggleTone" THEN "toggleTone"
    ELSE IF input = "calibrate" THEN "calibrate"
    ELSE IF input = "autoCycle" THEN "autoCycle"
    ELSE IF startsWith(input, "display") THEN "display"
    ELSE "unknown"

minFreqOf(input) == toInt(substring(input, 9, indexOf(input, ",")))
maxFreqOf(input) == toInt(substringFrom(input, indexOf(input, ",") + 1))
newGainOf(input) == toFloat(substringFrom(input, 8))
indexArgOf(input) == toInt(substringFrom(input, 7))

\* each line parsed once
Parsed ==
    [ input \in Lines |->
        [ branch  |-> branchOf(input),
          minFreq |-> minFreqOf(input),
          maxFreq |-> maxFreqOf(input),
          newGain |-> newGainOf(input),
          index   |-> indexArgOf(input) ] ]

ParsedCal == [ text \in CalInputs |-> parseFloat(text) ]

(***************************************************************************)
(* Messages.                                                               *)
(***************************************************************************)
PlotterLine == "ADC:,Voltage:,Voltage_mV:,Frequency:"
ViewTitle(display) ==
    CASE display = 0 -> "ADC Value:"
      [] display = 1 -> "Voltage:"
      [] display = 2 -> "Voltage:"
      [] display = 3 -> "Frequency:"
      [] display = 4 -> "Voltage Graph:"
      [] display = 5 -> "Frequency Graph:"

(***************************************************************************)
(* State.                                                                  *)
(***************************************************************************)
VARIABLES
    pc,             \* where the sketch is: setup, halted, checkSerial,
                    \* calibrateWait, analogRead
    adcValue, voltage, voltage_mV, frequency,
    scaleFactor, gainFactor,
    lcdEnabled, toneEnabled, autoCycle, lowPassEnabled,
    frequencyMin, frequencyMax, currentDisplay,
    adcHistory, historyIndex,
    taken,          \* history variable, not in the sketch: the raw reads
                    \* that went through the filter, the latest last, the
                    \* last historyLen of them
    lastUpdate,     \* the static local of loop()
    millis,         \* the clock millis() reads
    lcd,            \* the text on the display
    lcdWritten,     \* the last step cleared or printed to the display
    tonePin,        \* the tone output: playing or silent, and its frequency
    serialOut       \* the lines the last step printed on Serial

config == << scaleFactor, gainFactor, lcdEnabled, toneEnabled, autoCycle,
             lowPassEnabled, frequencyMin, frequencyMax, currentDisplay >>
measure == << adcValue, voltage, voltage_mV, frequency >>
filter == << adcHistory, historyIndex, taken >>
outputs == << lcd, lcdWritten, tonePin, serialOut >>
vars == << pc, config, measure, filter, lastUpdate, millis, outputs >>

Init ==
    /\ pc = "setup"
    /\ adcValue = 0
    /\ voltage = Rat(0, 1)
    /\ voltage_mV = Rat(0, 1)
    /\ frequency = 0
    /\ scaleFactor = Rat(1, 1)
    /\ gainFactor = Rat(1, 1)
    /\ lcdEnabled = TRUE
    /\ toneEnabled = TRUE
    /\ autoCycle = TRUE
    /\ lowPassEnabled = FALSE
    /\ frequencyMin = 50
    /\ frequencyMax = 1400
    /\ currentDisplay = 0
    /\ adcHistory = [i \in 0 .. historyLen - 1 |-> 0]
    /\ historyIndex = 0
    /\ taken = << >>
    /\ lastUpdate = 0
    /\ millis = 0
    /\ lcd = ""
    /\ lcdWritten = FALSE
    /\ tonePin = [playing |-> FALSE, hz |-> 0]
    /\ serialOut = << >>

(***************************************************************************)
(* The decisions and computations of the sketch.                           *)
(***************************************************************************)
rangeAcceptedZeroMin(minFreq, maxFreq) == minFreq >= 0 /\ maxFreq > minFreq

\* setRange: minFreq > 0 && maxFreq > minFreq
rangeAccepted(minFreq, maxFreq) == minFreq > 0 /\ maxFreq > minFreq

gainAcceptedZero(newGain) == newGain.k # "nan" /\ newGain.n >= 0

\* setGain: newGain > 0.0
gainAccepted(newGain) == FPositive(newGain)

indexAcceptedOffByOne(index) == index >= 0 /\ index <= numDisplays

\* display: index >= 0 && index < numDisplays
indexAccepted(index) == index >= 0 /\ index < numDisplays

\* calibrate: referenceVoltage / ((adcValue / 255.0) * 3.3)
calibratedScale(referenceVoltage, adc) ==
    FDiv(referenceVoltage,
         FMul(FDiv(FromInt(adc), FromInt(adcFullScale)), vref))

\* loop: ((adcValue / 255.0) * 3.3) * scaleFactor
computeVoltage(adc, scale) ==
    FMul(FMul(FDiv(FromInt(adc), FromInt(adcFullScale)), vref), scale)

mapFrequencyOver256(adc, fmin, fmax) == map(adc, 0, 256, fmin, fmax)

\* loop: map(adcValue, 0, 255, frequencyMin, frequencyMax)
mapFrequency(adc, fmin, fmax) == map(adc, 0, adcFullScale, fmin, fmax)

rotationDueAtInterval(now, last) == now - last >= cycleInterval

\* loop: millis() - lastUpdate > 2000.  The operands are unsigned long, so
\* the difference is taken modulo the width of the clock.  The second
\* millis() call, which sets lastUpdate, is taken to return the same
\* millisecond as the first
rotationDue(now, last) == (now - last) % clockWrap > cycleInterval

rotatesAlways(auto, now, last) == now - last > cycleInterval

\* loop: if (autoCycle) { if (millis() - lastUpdate > 2000) ... }
rotates(auto, now, last) == auto /\ rotationDue(now, last)

nextDisplaySkipsOne(display) == (display + 2) % numDisplays

\* loop: (currentDisplay + 1) % numDisplays
nextDisplay(display) == (display + 1) % numDisplays

historyAfterNextSlot(history, index, adc) ==
    [history EXCEPT ![(index + 1) % historyLen] = adc]

\* applyLowPassFilter: the buffer after the write, and the value returned
historyAfter(history, index, adc) == [history EXCEPT ![index] = adc]

\* the history variable after a read went through the filter
lastTaken(reads, read) ==
    LET all == Append(reads, read)
    IN  IF Len(all) > historyLen THEN Tail(all) ELSE all

RECURSIVE sumHistory(_, _)
sumHistory(history, i) ==
    IF i >= historyLen THEN 0 ELSE history[i] + sumHistory(history, i + 1)

applyLowPassFilterBeforeStore(history, index, adc) ==
    Rat(sumHistory(history, 0), historyLen)

\* applyLowPassFilter: store the sample, then sum / 10.0
applyLowPassFilter(history, index, adc) ==
    Rat(sumHistory(historyAfter(history, index, adc), 0), historyLen)

\* loop: what adcValue holds after analogRead() and the optional filter
sampleUsed(read) ==
    IF lowPassEnabled
    THEN truncToInt(applyLowPassFilter(adcHistory, historyIndex, read))
    ELSE read

(***************************************************************************)
(* setup()                                                                 *)
(***************************************************************************)
\* detectI2C finds the converter: the loop starts
SetupFound ==
    /\ pc = "setup"
    /\ pc' = "checkSerial"
    /\ millis' = millis + bannerDelay
    /\ lcd' = "[INFO] Radio-Astronomy"
    /\ lcdWritten' = TRUE
    /\ serialOut' = << "[SUCCESS] Serial Init.", "Device found",
                       "[SUCCESS] ADS7830 setup successful!" >>
    /\ UNCHANGED << config, measure, filter, lastUpdate, tonePin >>

SetupNotFoundGoesOn ==
    /\ pc = "setup"
    /\ pc' = "checkSerial"
    /\ millis' = millis + bannerDelay
    /\ lcd' = "[ERROR] ADC Not Found"
    /\ lcdWritten' = TRUE
    /\ serialOut' = << "[SUCCESS] Serial Init.",
                       "Device not found at address 0x4B" >>
    /\ UNCHANGED << config, measure, filter, lastUpdate, tonePin >>

\* detectI2C fails: the error message, then while (1)
SetupNotFound ==
    /\ pc = "setup"
    /\ pc' = "halted"
    /\ millis' = millis + bannerDelay
    /\ lcd' = "[ERROR] ADC Not Found"
    /\ lcdWritten' = TRUE
    /\ serialOut' = << "[SUCCESS] Serial Init.",
                       "Device not found at address 0x4B" >>
    /\ UNCHANGED << config, measure, filter, lastUpdate, tonePin >>

(***************************************************************************)
(* checkSerial() and processSerialInput()                                  *)
(***************************************************************************)
\* Serial.available() is 0: no line is read
NoInput ==
    /\ pc = "checkSerial"
    /\ pc' = "analogRead"
    /\ serialOut' = << >>
    /\ lcdWritten' = FALSE
    /\ UNCHANGED << config, measure, filter, lastUpdate, millis, lcd, tonePin >>

\* what every branch but calibrate shares: the line is consumed, the step
\* prints `said`, and loop() goes on to the read
Handled(input, branch, said) ==
    /\ pc = "checkSerial"
    /\ Parsed[input].branch = branch
    /\ pc' = "analogRead"
    /\ serialOut' = said
    /\ UNCHANGED << measure, filter, lastUpdate, millis >>

CmdSetRange(input) ==
    LET minFreq == Parsed[input].minFreq
        maxFreq == Parsed[input].maxFreq
        ok == rangeAccepted(minFreq, maxFreq)
    IN  /\ Handled(input, "setRange",
                   IF ok THEN << "[INFO] Frequency range updated." >>
                   ELSE << "[ERROR] Invalid range." >>)
        /\ frequencyMin' = IF ok THEN minFreq ELSE frequencyMin
        /\ frequencyMax' = IF ok THEN maxFreq ELSE frequencyMax
        /\ lcdWritten' = FALSE
        /\ UNCHANGED << scaleFactor, gainFactor, lcdEnabled, toneEnabled,
                        autoCycle, lowPassEnabled, currentDisplay, lcd, tonePin >>

\* setGain() reports on the display, not on Serial
CmdSetGain(input) ==
    LET newGain == Parsed[input].newGain
        ok == gainAccepted(newGain)
    IN  /\ Handled(input, "setGain", << >>)
        /\ gainFactor' = IF ok THEN newGain ELSE gainFactor
        /\ lcd' = IF ok THEN "[INFO] Gain factor updated to: "
                  ELSE "[ERROR] Invalid gain factor."
        /\ lcdWritten' = TRUE
        /\ UNCHANGED << scaleFactor, lcdEnabled, toneEnabled, autoCycle,
                        lowPassEnabled, frequencyMin, frequencyMax,
                        currentDisplay, tonePin >>

CmdToggleLCD(input) ==
    /\ Handled(input, "toggleLCD", << "[INFO] LCD display toggled." >>)
    /\ lcdEnabled' = ~lcdEnabled
    /\ lcdWritten' = FALSE
    /\ UNCHANGED << scaleFactor, gainFactor, toneEnabled, autoCycle,
                    lowPassEnabled, frequencyMin, frequencyMax,
                    currentDisplay, lcd, tonePin >>

CmdToggleLowpass(input) ==
    /\ Handled(input, "toggleLowpass", << "[INFO] Lowpass toggled" >>)
    /\ lowPassEnabled' = ~lowPassEnabled
    /\ lcdWritten' = FALSE
    /\ UNCHANGED << scaleFactor, gainFactor, lcdEnabled, toneEnabled,
                    autoCycle, frequencyMin, frequencyMax, currentDisplay,
                    lcd, tonePin >>

CmdToggleToneKeepsPlaying(input) ==
    /\ Handled(input, "toggleTone",
               IF ~toneEnabled THEN << "[INFO] Tone generation toggled." >>
               ELSE << "[INFO] Tone generation disabled." >>)
    /\ toneEnabled' = ~toneEnabled
    /\ tonePin' = IF toneEnabled' THEN [playing |-> TRUE, hz |-> frequency]
                  ELSE tonePin
    /\ lcdWritten' = FALSE
    /\ UNCHANGED << scaleFactor, gainFactor, lcdEnabled, autoCycle,
                    lowPassEnabled, frequencyMin, frequencyMax,
                    currentDisplay, lcd >>

CmdToggleTone(input) ==
    /\ Handled(input, "toggleTone",
               IF ~toneEnabled THEN << "[INFO] Tone generation toggled." >>
               ELSE << "[INFO] Tone generation disabled." >>)
    /\ toneEnabled' = ~toneEnabled
    /\ tonePin' = IF toneEnabled' THEN [playing |-> TRUE, hz |-> frequency]
                  ELSE [playing |-> FALSE, hz |-> 0]
    /\ lcdWritten' = FALSE
    /\ UNCHANGED << scaleFactor, gainFactor, lcdEnabled, autoCycle,
                    lowPassEnabled, frequencyMin, frequencyMax,
                    currentDisplay, lcd >>

CmdCalibrateReturnsAtOnce(input) ==
    /\ pc = "checkSerial"
    /\ Parsed[input].branch = "calibrate"
    /\ pc' = "analogRead"
    /\ serialOut' = << "[INFO] Enter reference voltage in mV:" >>
    /\ lcdWritten' = FALSE
    /\ UNCHANGED << config, measure, filter, lastUpdate, millis, lcd, tonePin >>

\* calibrate prints its prompt and spins in while (!Serial.available())
CmdCalibrate(input) ==
    /\ pc = "checkSerial"
    /\ Parsed[input].branch = "calibrate"
    /\ pc' = "calibrateWait"
    /\ serialOut' = << "[INFO] Enter reference voltage in mV:" >>
    /\ lcdWritten' = FALSE
    /\ UNCHANGED << config, measure, filter, lastUpdate, millis, lcd, tonePin >>

\* the reference value arrives: parseFloat, the new scale, back to loop()
CalibrateInput(text, wait) ==
    /\ pc = "calibrateWait"
    /\ millis + wait <= MaxMillis
    /\ pc' = "analogRead"
    /\ millis' = millis + wait
    /\ scaleFactor' = calibratedScale(ParsedCal[text], adcValue)
    /\ serialOut' = << "[INFO] Calibration complete." >>
    /\ lcdWritten' = FALSE
    /\ UNCHANGED << gainFactor, lcdEnabled, toneEnabled, autoCycle,
                    lowPassEnabled, frequencyMin, frequencyMax,
                    currentDisplay, measure, filter, lastUpdate, lcd, tonePin >>

CmdAutoCycleResetsView(input) ==
    /\ pc = "checkSerial"
    /\ Parsed[input].branch = "autoCycle"
    /\ pc' = "analogRead"
    /\ serialOut' = IF ~autoCycle THEN << "[INFO] Auto-cycle enabled." >>
                    ELSE << "[INFO] Auto-cycle disabled." >>
    /\ autoCycle' = ~autoCycle
    /\ currentDisplay' = 0
    /\ lcdWritten' = FALSE
    /\ UNCHANGED << scaleFactor, gainFactor, lcdEnabled, toneEnabled,
                    lowPassEnabled, frequencyMin, frequencyMax, measure,
                    filter, lastUpdate, millis, lcd, tonePin >>

CmdAutoCycle(input) ==
    /\ Handled(input, "autoCycle",
               IF ~autoCycle THEN << "[INFO] Auto-cycle enabled." >>
               ELSE << "[INFO] Auto-cycle disabled." >>)
    /\ autoCycle' = ~autoCycle
    /\ lcdWritten' = FALSE
    /\ UNCHANGED << scaleFactor, gainFactor, lcdEnabled, toneEnabled,
                    lowPassEnabled, frequencyMin, frequencyMax,
                    currentDisplay, lcd, tonePin >>

CmdDisplay(input) ==
    LET index == Parsed[input].index
        ok == indexAccepted(index)
    IN  /\ Handled(input, "display",
                   IF ok THEN << "[INFO] Display updated to " >>
                   ELSE << "[ERROR] Invalid display index." >>)
        /\ autoCycle' = IF ok THEN FALSE ELSE autoCycle
        /\ currentDisplay' = IF ok THEN index ELSE currentDisplay
        /\ lcdWritten' = FALSE
        /\ UNCHANGED << scaleFactor, gainFactor, lcdEnabled, toneEnabled,
                        lowPassEnabled, frequencyMin, frequencyMax, lcd,
                        tonePin >>

CmdUnknown(input) ==
    /\ Handled(input, "unknown", << "[ERROR] Unknown command." >>)
    /\ lcdWritten' = FALSE
    /\ UNCHANGED << config, lcd, tonePin >>

(***************************************************************************)
(* loop() from analogRead() to delay(200)                                  *)
(***************************************************************************)
\* the read succeeds with `read`: the pass up to delay(200), the clock apart
SamplePass(read) ==
    LET rotate == rotates(autoCycle, millis, lastUpdate)
        used == sampleUsed(read)
        volts == computeVoltage(used, scaleFactor)
        hertz == mapFrequency(used, frequencyMin, frequencyMax)
        shown == IF rotate THEN nextDisplay(currentDisplay)
                 ELSE currentDisplay
    IN  /\ pc = "analogRead"
        /\ pc' = "checkSerial"
        /\ adcValue' = used
        /\ IF lowPassEnabled
           THEN /\ adcHistory' = historyAfter(adcHistory, historyIndex, read)
                /\ historyIndex' = (historyIndex + 1) % historyLen
                /\ taken' = lastTaken(taken, read)
           ELSE UNCHANGED filter
        /\ voltage' = volts
        /\ voltage_mV' = FMul(volts, FromInt(1000))
        /\ frequency' = hertz
        /\ tonePin' = IF toneEnabled THEN [playing |-> TRUE, hz |-> hertz]
                      ELSE tonePin
        /\ currentDisplay' = shown
        /\ lastUpdate' = IF rotate THEN millis ELSE lastUpdate
        /\ lcd' = IF lcdEnabled THEN ViewTitle(shown) ELSE lcd
        /\ lcdWritten' = lcdEnabled
        /\ serialOut' = << PlotterLine >>
        /\ UNCHANGED << scaleFactor, gainFactor, lcdEnabled, toneEnabled,
                        autoCycle, lowPassEnabled, frequencyMin, frequencyMax >>

\* a pass whose read succeeds; it takes `work` ms beyond the delay
LoopSample(read, work) ==
    /\ millis + loopDelay + work <= MaxMillis
    /\ SamplePass(read)
    /\ millis' = millis + loopDelay + work

FailurePassSendsPlot ==
    /\ pc = "analogRead"
    /\ pc' = "checkSerial"
    /\ adcValue' = readFailed
    /\ lcd' = IF lcdEnabled THEN "[ERROR] ADC READ" ELSE lcd
    /\ lcdWritten' = lcdEnabled
    /\ serialOut' = << "Error reading ADC!", PlotterLine >>
    /\ UNCHANGED << config, voltage, voltage_mV, frequency, filter,
                    lastUpdate, tonePin >>

\* Wire.available() is 0: analogRead returns -1 and the else branch of
\* loop() runs, the clock apart
FailurePass ==
    /\ pc = "analogRead"
    /\ pc' = "checkSerial"
    /\ adcValue' = readFailed
    /\ lcd' = IF lcdEnabled THEN "[ERROR] ADC READ" ELSE lcd
    /\ lcdWritten' = lcdEnabled
    /\ serialOut' = << "Error reading ADC!", "[ERROR] Failed to read ADC!" >>
    /\ UNCHANGED << config, voltage, voltage_mV, frequency, filter,
                    lastUpdate, tonePin >>

\* a pass whose read fails
LoopReadFailure(work) ==
    /\ millis + loopDelay + work <= MaxMillis
    /\ FailurePass
    /\ millis' = millis + loopDelay + work

Next ==
    \/ SetupFound
    \/ SetupNotFound
    \/ NoInput
    \/ \E input \in Lines : CmdSetRange(input)
    \/ \E input \in Lines : CmdSetGain(input)
    \/ \E input \in Lines : CmdToggleLCD(input)
    \/ \E input \in Lines : CmdToggleLowpass(input)
    \/ \E input \in Lines : CmdToggleTone(input)
    \/ \E input \in Lines : CmdCalibrate(input)
    \/ \E text \in CalInputs, wait \in WaitTimes : CalibrateInput(text, wait)
    \/ \E input \in Lines : CmdAutoCycle(input)
    \/ \E input \in Lines : CmdDisplay(input)
    \/ \E input \in Lines : CmdUnknown(input)
    \/ \E read \in Samples, work \in WorkTimes : LoopSample(read, work)
    \/ \E work \in WorkTimes : LoopReadFailure(work)

Spec == Init /\ [][Next]_vars

(***************************************************************************)
(* The filter over many passes: passes that take no longer than the delay, *)
(* two sample values, and toggleLowpass as the only line.                  *)
(***************************************************************************)
SmoothSamples == { 128, 255 }

NextSmooth ==
    \/ SetupFound
    \/ NoInput
    \/ CmdToggleLowpass("toggleLowpass")
    \/ \E read \in SmoothSamples : LoopSample(read, 0)

SpecSmooth == Init /\ [][NextSmooth]_vars

(***************************************************************************)
(* The rotation of the view over a run without end: the clock wraps        *)
(* instead of stopping at MaxMillis, the converter is found, and the lines *)
(* are those that touch the view.  loop() is called for ever, and reads    *)
(* succeed again and again.                                                *)
(***************************************************************************)
CycleSamples == { 128 }
CycleWorkTimes == { 824 }

CycleSample(read, work) ==
    /\ SamplePass(read)
    /\ millis' = (millis + loopDelay + work) % clockWrap

CycleReadFailure(work) ==
    /\ FailurePass
    /\ millis' = (millis + loopDelay + work) % clockWrap

CycleSampleStep ==
    \E read \in CycleSamples, work \in CycleWorkTimes : CycleSample(read, work)

\* a read succeeds in a pass that finds the rotation due
CycleSampleDue == rotationDue(millis, lastUpdate) /\ CycleSampleStep

NextCycle ==
    \/ SetupFound
    \/ NoInput
    \/ CmdAutoCycle("autoCycle")
    \/ CmdDisplay("display 3")
    \/ CycleSampleStep
    \/ \E work \in CycleWorkTimes : CycleReadFailure(work)

SpecCycle ==
    Init /\ [][NextCycle]_vars /\ WF_vars(NextCycle) /\ SF_vars(CycleSampleStep)

(***************************************************************************)
(* Steps of loop(), for the properties below.                              *)
(***************************************************************************)
SampleStep == \E read \in Samples, work \in WorkTimes : LoopSample(read, work)
FailureStep == \E work \in WorkTimes : LoopReadFailure(work)
CalibrateStep(text) == \E wait \in WaitTimes : CalibrateInput(text, wait)

\* processSerialInput takes one of its branches on `input`
LineStep(input) ==
    \/ CmdSetRange(input) \/ CmdSetGain(input) \/ CmdToggleLCD(input)
    \/ CmdToggleLowpass(input) \/ CmdToggleTone(input) \/ CmdCalibrate(input)
    \/ CmdAutoCycle(input) \/ CmdDisplay(input) \/ CmdUnknown(input)

\* the documented voltage: (sample / 255) * 3.3 * CalibrationScale * GainFactor
documentedVoltage(sample, scale, gain) ==
    FMul(FMul(FMul(FDiv(FromInt(sample), FromInt(255)), Rat(33, 10)), scale),
         gain)

\* C1: after every successful cycle the voltage is
\* (sample / 255) * 3.3 * CalibrationScale * GainFactor for the sample that
\* cycle used, so a gain of 2.0 doubles the voltage of gain 1.0.
C1_VoltageUsesGain ==
    (pc = "checkSerial" /\ serialOut = << PlotterLine >>)
        => voltage = documentedVoltage(adcValue, scaleFactor, gainFactor)

\* C2: a cycle whose read fails leaves the stored sample at the value of the
\* last successful read; the failure sentinel never overwrites it.
C2_FailedReadKeepsSample == [][FailureStep => adcValue' = adcValue]_vars

\* C3: calibrate with reference r millivolts and last sample s in 1..255 sets
\* CalibrationScale to r / ((s / 255) * 3300).
C3_CalibrationInMillivolts ==
    [][\A text \in CalInputs :
          (CalibrateStep(text) /\ adcValue \in 1 .. 255)
              => scaleFactor' =
                    FDiv(parseFloat(text),
                         FMul(FDiv(FromInt(adcValue), FromInt(255)),
                              FromInt(3300)))]_vars

\* C4: CalibrationScale is a positive number in every reachable state.
C4_ScalePositive == scaleFactor.k = "num" /\ scaleFactor.n > 0

\* the setRange lines of the model with the two numbers they carry
RangeLines ==
    { << "setRange 100,200", 100, 200 >>, << "setRange 0,200", 0, 200 >>,
      << "setRange 200,100", 200, 100 >>, << "setRange 100,100", 100, 100 >> }

\* C5: setRange a,b with a <= 0 or b <= a leaves the range unchanged and
\* reports an error; with 0 < a < b the range becomes exactly (a, b); so
\* frequencyMin > 0 and frequencyMax > frequencyMin always hold.
C5_SetRange ==
    /\ [][\A l \in RangeLines :
            CmdSetRange(l[1]) =>
                IF 0 < l[2] /\ l[2] < l[3]
                THEN frequencyMin' = l[2] /\ frequencyMax' = l[3]
                ELSE /\ UNCHANGED << frequencyMin, frequencyMax >>
                     /\ serialOut' = << "[ERROR] Invalid range." >>]_vars
    /\ [](frequencyMin > 0 /\ frequencyMax > frequencyMin)

\* a setRange line was accepted, and one was refused
C5_Witness ==
    /\ frequencyMin = 100 /\ frequencyMax = 200
    /\ serialOut = << "[ERROR] Invalid range." >>

\* the setGain lines of the model with the number they carry
GainLines ==
    { << "setGain 2.0", Rat(2, 1) >>, << "setGain -1", Rat(-1, 1) >>,
      << "setGain 0", Rat(0, 1) >> }

\* C6: setGain g with g <= 0 leaves the gain unchanged and shows an error
\* message; with g > 0 the gain becomes exactly g; so the gain is always
\* positive.
C6_SetGain ==
    /\ [][\A l \in GainLines :
            CmdSetGain(l[1]) =>
                IF l[2].n > 0
                THEN gainFactor' = l[2]
                ELSE /\ gainFactor' = gainFactor
                     /\ lcd' = "[ERROR] Invalid gain factor."]_vars
    /\ [](gainFactor.k = "num" /\ gainFactor.n > 0)

\* a gain of 2.0 was accepted, and a later setGain was refused
C6_Witness ==
    /\ gainFactor = Rat(2, 1)
    /\ lcd = "[ERROR] Invalid gain factor."

\* the display lines of the model with the index they carry
DisplayLines ==
    { << "display 0", 0 >>, << "display 3", 3 >>, << "display 5", 5 >>,
      << "display 6", 6 >>, << "display -1", -1 >> }

\* C7: display i with i in 0..5 sets the view to i and switches auto-cycle
\* off; with i outside 0..5 it changes no state and reports an error; so the
\* view is always in 0..5.
C7_Display ==
    /\ [][\A l \in DisplayLines :
            CmdDisplay(l[1]) =>
                IF l[2] \in 0 .. 5
                THEN currentDisplay' = l[2] /\ autoCycle' = FALSE
                ELSE /\ UNCHANGED << config, measure, filter, lastUpdate,
                                     millis, lcd, tonePin >>
                     /\ serialOut' = << "[ERROR] Invalid display index." >>]_vars
    /\ [](currentDisplay \in 0 .. 5)

\* view 5 was selected by hand, and a later display line was refused
C7_Witness ==
    /\ currentDisplay = 5 /\ ~autoCycle
    /\ serialOut = << "[ERROR] Invalid display index." >>

\* C8: with auto-cycle off the view stays where it is through every step
\* (cycles that read or fail, whatever the clock) until a display or an
\* autoCycle line is processed.
C8_ManualViewStays ==
    [][(~autoCycle /\ ~(\E input \in Lines :
                            CmdDisplay(input) \/ CmdAutoCycle(input)))
          => (~autoCycle' /\ currentDisplay' = currentDisplay)]_vars

\* view 3 was selected by hand before any rotation and a cycle has run since,
\* more than 2000 ms after the (never set) last rotation
C8_Witness ==
    /\ ~autoCycle /\ currentDisplay = 3 /\ lastUpdate = 0
    /\ pc = "checkSerial" /\ serialOut = << PlotterLine >>
    /\ millis > bannerDelay + 2000

\* C9 as claimed: with auto-cycle on, a cycle advances the view by one when
\* 2000 ms have elapsed since the last rotation and leaves it otherwise.
C9_RotatesAt2000 ==
    [][(SampleStep /\ autoCycle)
          => currentDisplay' =
                IF millis - lastUpdate >= 2000
                THEN (currentDisplay + 1) % 6 ELSE currentDisplay]_vars

\* C9 as amended: with auto-cycle on, a cycle whose read succeeds advances
\* the view by one, and restarts the measure, when more than 2000 ms have
\* elapsed since the last rotation, and leaves both otherwise; a cycle whose
\* read fails never rotates; so two rotations are more than 2000 ms apart.
C9_RotatesAfter2000 ==
    /\ [][(SampleStep /\ autoCycle)
            => IF millis - lastUpdate > 2000
               THEN /\ currentDisplay' = (currentDisplay + 1) % 6
                    /\ lastUpdate' = millis
               ELSE UNCHANGED << currentDisplay, lastUpdate >>]_vars
    /\ [][FailureStep => UNCHANGED << currentDisplay, lastUpdate >>]_vars
    /\ [][lastUpdate' # lastUpdate => lastUpdate' - lastUpdate > 2000]_vars

\* the view has rotated twice: at the first cycle and once more later
C9_Witness == autoCycle /\ currentDisplay = 2 /\ lastUpdate > bannerDelay

\* C10: each of toggleLCD, toggleLowpass, toggleTone and autoCycle flips its
\* own flag and leaves the other flags, the view, the range, the gain, the
\* scale and the filter history unchanged.
C10_TogglesFlipOwnFlag ==
    [][pc = "checkSerial" =>
        \A input \in Lines :
          /\ CmdToggleLCD(input) =>
                /\ lcdEnabled' = ~lcdEnabled
                /\ UNCHANGED << toneEnabled, lowPassEnabled, autoCycle >>
          /\ CmdToggleLowpass(input) =>
                /\ lowPassEnabled' = ~lowPassEnabled
                /\ UNCHANGED << lcdEnabled, toneEnabled, autoCycle >>
          /\ CmdToggleTone(input) =>
                /\ toneEnabled' = ~toneEnabled
                /\ UNCHANGED << lcdEnabled, lowPassEnabled, autoCycle >>
          /\ CmdAutoCycle(input) =>
                /\ autoCycle' = ~autoCycle
                /\ UNCHANGED << lcdEnabled, toneEnabled, lowPassEnabled >>
          /\ (\/ CmdToggleLCD(input) \/ CmdToggleLowpass(input)
              \/ CmdToggleTone(input) \/ CmdAutoCycle(input)) =>
                UNCHANGED << currentDisplay, frequencyMin, frequencyMax,
                             gainFactor, scaleFactor, adcHistory,
                             historyIndex >>]_vars

\* auto-cycle was switched off by its toggle after the first rotation, and
\* the view is still the one the rotation left
C10_Witness ==
    /\ ~autoCycle /\ currentDisplay = 1 /\ lastUpdate = bannerDelay
    /\ serialOut = << "[INFO] Auto-cycle disabled." >>

\* C11: a cycle whose read fails skips every later stage: the voltage, the
\* frequency, the filter history and its index, the view and the time of the
\* last rotation are unchanged, the tone output is left as it was, no
\* telemetry line is printed, the error view is shown if the LCD is enabled
\* (and the display is left alone if not), and loop() returns for the next
\* cycle.
C11_FailedReadSkipsStages ==
    [][FailureStep =>
          /\ UNCHANGED << voltage, voltage_mV, frequency, adcHistory,
                          historyIndex, currentDisplay, lastUpdate, tonePin >>
          /\ \A i \in 1 .. Len(serialOut') : serialOut'[i] # PlotterLine
          /\ lcd' = IF lcdEnabled THEN "[ERROR] ADC READ" ELSE lcd
          /\ pc' = "checkSerial"]_vars

\* a read failed after one that had succeeded with the tone and the LCD on
C11_Witness ==
    /\ pc = "checkSerial" /\ adcValue = readFailed
    /\ lcd = "[ERROR] ADC READ" /\ frequency > 0 /\ tonePin.playing
    /\ serialOut = << "Error reading ADC!", "[ERROR] Failed to read ADC!" >>

\* the commands of the command table: five bare words, and three words that
\* are followed by a space and an argument
documentedCommand(input) ==
    \/ input \in { "toggleLCD", "toggleLowpass", "toggleTone", "calibrate",
                   "autoCycle" }
    \/ startsWith(input, "setRange ")
    \/ startsWith(input, "setGain ")
    \/ startsWith(input, "display ")

\* C12: a line that is none of the documented commands changes no state (the
\* range, the gain, the scale, the toggles and the view stay), is answered
\* with the unknown-command message, and loop() goes on to the read of the
\* same cycle.
C12_UnknownLineChangesNothing ==
    [][pc = "checkSerial" =>
        \A input \in Lines :
          (~documentedCommand(input) /\ LineStep(input))
              => /\ UNCHANGED << config, measure, filter, lastUpdate, lcd,
                                 tonePin >>
                 /\ serialOut' = << "[ERROR] Unknown command." >>
                 /\ pc' = "analogRead"]_vars

\* C13: with the filter off, a cycle that reads 0 sets the frequency to the
\* lower end of the range and a cycle that reads 255 sets it to the upper
\* end; the range is the one left by the line processed at the start of the
\* same cycle.
C13_RangeEndpoints ==
    [][pc = "analogRead" =>
        \A work \in WorkTimes :
          /\ (~lowPassEnabled /\ LoopSample(0, work))
                => frequency' = frequencyMin
          /\ (~lowPassEnabled /\ LoopSample(adcFullScale, work))
                => frequency' = frequencyMax]_vars

\* "setRange 100,200" was the line of the first cycle, whose read was 255
C13_Witness ==
    /\ pc = "checkSerial" /\ serialOut = << PlotterLine >>
    /\ millis <= bannerDelay + loopDelay + 800
    /\ ~lowPassEnabled /\ frequencyMin = 100 /\ frequencyMax = 200
    /\ adcValue = adcFullScale /\ frequency = 200

\* C14: with the filter on, a cycle that reads v, and whose read is the
\* tenth or a later one in an unbroken run of filtered reads of v, leaves
\* exactly v in adcValue, whatever the history held before the run.
C14_SteadyInputPassesFilter ==
    [][pc = "analogRead" =>
        \A v \in SmoothSamples :
          (/\ lowPassEnabled
           /\ LoopSample(v, 0)
           /\ taken' = [i \in 1 .. historyLen |-> v])
              => adcValue' = v]_vars

\* eleven reads went through the filter, the last ten of them 255, so the
\* run overwrote what the first read had left in slot 0
C14_Witness ==
    /\ pc = "checkSerial" /\ serialOut = << PlotterLine >> /\ lowPassEnabled
    /\ historyIndex = 1
    /\ taken = [i \in 1 .. historyLen |-> 255]
    /\ adcValue = 255

RECURSIVE sumSeq(_)
sumSeq(s) == IF s = << >> THEN 0 ELSE Head(s) + sumSeq(Tail(s))

\* C15: the history buffer holds the raw values of the last ten reads that
\* went through the filter, the j-th latest of them j slots behind the index,
\* and zero in the slots never written; the index stays in 0..9; toggling
\* the filter and cycles run with the filter off change neither the buffer
\* nor the index, so a filtered cycle returns the mean of the last ten
\* filtered reads however long ago they were taken.
C15_HistoryHoldsLastTen ==
    /\ [](/\ historyIndex \in 0 .. historyLen - 1
          /\ \A j \in 1 .. Len(taken) :
                adcHistory[(historyIndex - j) % historyLen]
                    = taken[Len(taken) - j + 1]
          /\ Len(taken) < historyLen =>
                /\ historyIndex = Len(taken)
                /\ \A i \in Len(taken) .. historyLen - 1 : adcHistory[i] = 0)
    /\ [][(\/ CmdToggleLowpass("toggleLowpass")
           \/ ~lowPassEnabled /\ \E read \in SmoothSamples :
                                    LoopSample(read, 0))
            => UNCHANGED << adcHistory, historyIndex >>]_vars
    /\ [][(lowPassEnabled /\ \E read \in SmoothSamples : LoopSample(read, 0))
            => adcValue' = sumSeq(taken') \div historyLen]_vars

\* thirteen reads went through the filter, the last of them 255; the filter
\* is off now and the last cycle read 128 without touching the buffer
C15_Witness ==
    /\ pc = "checkSerial" /\ serialOut = << PlotterLine >>
    /\ ~lowPassEnabled /\ adcValue = 128
    /\ Len(taken) = historyLen /\ taken[historyLen] = 255
    /\ historyIndex = 3 /\ adcHistory[2] = 255

\* C16: the calibrate line leaves the sketch waiting with nothing changed;
\* while it waits the only step is the arrival of the number, so no read, no
\* display update, no telemetry, no other line and no other change of the
\* configuration happens, and without the number the sketch waits for ever;
\* the arrival sets the scale and loop() goes on to the read of the same
\* cycle.
C16_CalibrateStallsLoop ==
    /\ [][(pc = "checkSerial"
           /\ serialOut' = << "[INFO] Enter reference voltage in mV:" >>)
            => /\ pc' = "calibrateWait"
               /\ UNCHANGED << config, measure, filter, lastUpdate, millis,
                               lcd, tonePin >>]_vars
    /\ [][pc = "calibrateWait"
            => /\ pc' = "analogRead"
               /\ \E text \in CalInputs :
                     scaleFactor' = calibratedScale(ParsedCal[text], adcValue)
               /\ serialOut' = << "[INFO] Calibration complete." >>
               /\ ~lcdWritten'
               /\ UNCHANGED << gainFactor, lcdEnabled, toneEnabled, autoCycle,
                               lowPassEnabled, frequencyMin, frequencyMax,
                               currentDisplay, measure, filter, lastUpdate,
                               lcd, tonePin >>]_vars
    /\ [][pc = "analogRead" => SampleStep \/ FailureStep]_vars

\* the number arrived 2000 ms after the prompt of the second cycle: the
\* scale is set, the view and the measurement are those of the first cycle,
\* and the sketch is about to read
C16_Witness ==
    /\ pc = "analogRead" /\ serialOut = << "[INFO] Calibration complete." >>
    /\ adcValue = 128 /\ scaleFactor = calibratedScale(FromInt(3300), 128)
    /\ millis = bannerDelay + loopDelay + 800 + 2000
    /\ currentDisplay = 1 /\ lastUpdate = bannerDelay

\* C17: setup() either finds the converter and enters the loop, or shows
\* the error message and halts; once halted the sketch takes no further
\* step, so no sample is read (the measurement is still the initial one),
\* no line is interpreted (the configuration is still the initial one) and
\* no telemetry line is printed.
C17_ProbeFailureHalts ==
    /\ [][pc = "setup" =>
            \/ pc' = "halted" /\ lcd' = "[ERROR] ADC Not Found"
            \/ pc' = "checkSerial" /\ lcd' = "[INFO] Radio-Astronomy"]_vars
    /\ [](lcd = "[ERROR] ADC Not Found" => pc = "halted")
    /\ [][pc # "halted"]_vars
    /\ [](pc = "halted" =>
            /\ adcValue = 0 /\ frequency = 0 /\ voltage = Rat(0, 1)
            /\ taken = << >> /\ lastUpdate = 0 /\ ~tonePin.playing
            /\ scaleFactor = Rat(1, 1) /\ gainFactor = Rat(1, 1)
            /\ lcdEnabled /\ toneEnabled /\ autoCycle /\ ~lowPassEnabled
            /\ frequencyMin = 50 /\ frequencyMax = 1400 /\ currentDisplay = 0
            /\ \A i \in 1 .. Len(serialOut) : serialOut[i] # PlotterLine)

\* the probe failed: the message is on the display and the sketch is halted
C17_Witness ==
    /\ pc = "halted" /\ lcd = "[ERROR] ADC Not Found"
    /\ serialOut = << "[SUCCESS] Serial Init.",
                      "Device not found at address 0x4B" >>

\* C18: whenever the tone toggle is off the tone output is silent:
\* toggleTone to off stops the output in the same step, no later step starts
\* it while the toggle is off, and toggleTone to on starts it in the same
\* step at the current value of frequency.
C18_ToneOffIsSilent ==
    /\ [](~toneEnabled => ~tonePin.playing)
    /\ [][(toneEnabled /\ ~toneEnabled') => ~tonePin'.playing]_vars
    /\ [][(~toneEnabled /\ ~toneEnabled') => ~tonePin'.playing]_vars
    /\ [][(~toneEnabled /\ toneEnabled')
            => tonePin' = [playing |-> TRUE, hz |-> frequency]]_vars

\* toggleTone switched the tone off after the first cycle, and a cycle that
\* read 128 has run since without starting it
C18_Witness ==
    /\ ~toneEnabled /\ ~tonePin.playing
    /\ pc = "checkSerial" /\ serialOut = << PlotterLine >>
    /\ adcValue = 128 /\ frequency > 0
    /\ millis > bannerDelay + loopDelay + 1801

\* C19: while the LCD toggle is off no step of the control loop, be it a
\* cycle that reads, a cycle that fails or a line, clears or prints to the
\* display.
C19_LcdOffNothingWritten ==
    [][~lcdEnabled => (~lcdWritten' /\ lcd' = lcd)]_vars

\* the view changes only by one step along 0, 1, 2, 3, 4, 5, 0, ... while
\* auto-cycle stays on
InOrder ==
    [][(autoCycle /\ autoCycle' /\ currentDisplay' # currentDisplay)
          => currentDisplay' = (currentDisplay + 1) % 6]_vars

\* C20 as claimed: if auto-cycle stays on from some point, reads succeed
\* again and again and the clock keeps advancing, then each of the six views
\* is the current view again and again, and the views follow one another in
\* the order 0, 1, 2, 3, 4, 5, 0, ... with none skipped.
C20_EveryViewRecurs ==
    /\ InOrder
    /\ \A d \in 0 .. 5 : (<>[]autoCycle) => []<>(currentDisplay = d)

\* C20 as amended: the same, provided that, if passes that find the rotation
\* due (more than 2000 ms since the last one, on the wrapping clock) keep
\* coming, then reads succeed in such passes again and again.
C20_EveryViewRecursIfDue ==
    /\ InOrder
    /\ \A d \in 0 .. 5 :
          (<>[]autoCycle /\ SF_vars(CycleSampleDue))
              => []<>(currentDisplay = d)

\* the clock has wrapped and the rotation has gone once round to view 0
C20_Witness ==
    /\ autoCycle /\ currentDisplay = 0 /\ lastUpdate > millis
    /\ pc = "checkSerial" /\ serialOut = << PlotterLine >>
====
